---------------------------- MODULE Spec2Model ----------------------------
(* Verification model of the utilities of fuadnacif/util:                   *)
(*   funcoes.py            gera_senha, so_numeros, dia_da_semana            *)
(*   criar_diretorios.py   the directory-tree script                        *)
(*   db_excel_exporter.py  PostgreSQLExporter and quick_export              *)
EXTENDS Integers, Sequences, FiniteSets, TLC

VARIABLES
    \* ---- funcoes.py: one call of one helper
    fn,        \* the helper being called
    arg,       \* its argument (tamanho, texto or dia)
    acc,       \* the characters produced so far
    pos,       \* so_numeros: number of characters of texto consumed
    ret,       \* the outcome: [kind |-> "pending" | "value" | "IndexError", ...]
    \* ---- criar_diretorios.py: one run of the script
    debug,     \* line 12
    nAnos,     \* number of years in the range anos
    fs0,       \* the directories that exist when the script starts
    fs,        \* the directories that exist now
    printed,   \* the lines printed so far
    dpc,       \* the statement the script is at
    ti, ano, mes, dia,   \* the loop variables
    caminho,   \* line 20/27/33/39
    \* ---- db_excel_exporter.py: one client, one exporter at a time
    pool,        \* the exporter's ThreadedConnectionPool: [state, idle, used]
    stack,       \* the call stack: frames [fn, pc], the running one last
    exc,         \* the exception in flight: [err, context], or NoExc
    op,          \* the client's call: its name and arguments
    eq,          \* execute_query's arguments: [query, params, as_dict]
    description, \* cursor.description after execute
    results,     \* the number of rows fetchall returned
    df,          \* the DataFrame in hand: [columns, rows]
    writer,      \* the ExcelWriter: the sheets written into it
    disk,        \* what is at output_file: "absent", "empty" or a document
    executed,    \* what cursor.execute was given, in order, in this call
    idx,         \* multiple_queries_to_excel: position in queries.items()
    result,      \* the outcome of the client's call
    qfail,       \* history: the sheet position whose query failed, and the error
    closeCalls   \* history: calls of closeall in this call

funcoesVars == <<fn, arg, acc, pos, ret>>
dirVars == <<debug, nAnos, fs0, fs, printed, dpc, ti, ano, mes, dia, caminho>>
expVars ==
    <<pool, stack, exc, op, eq, description, results, df, writer, disk,
      executed, idx, result, qfail, closeCalls>>
vars == <<funcoesVars, dirVars, expVars>>

Range(s) == {s[i] : i \in 1..Len(s)}

(***************************************************************************)
(* Bounds                                                                  *)
(***************************************************************************)
MaxTamanho == 2
MaxTexto == 3
MaxDia == 9
MaxAnos == 2
MaxRows == 1
MaxCols == 2

(***************************************************************************)
(* funcoes.py                                                              *)
(***************************************************************************)
letras ==
    << "a","b","c","d","e","f","g","h","i","j","k","l","m",
       "n","o","p","q","r","s","t","u","v","w","x","y","z",
       "A","B","C","D","E","F","G","H","I","J","K","L","M",
       "N","O","P","Q","R","S","T","U","V","W","X","Y","Z" >>

caracteres == << "!","@","#","$","%","&","-" >>

digitos_com_7 == << "0","1","2","3","4","5","6","7","8","9" >>

digitos == << "0","1","2","3","4","5","6","8","9" >>

geral == letras \o caracteres \o digitos

\* random.choices(geral, k): each of the k draws is geral[floor(random() * n)],
\* an index 0..n-1 of the population.
Choice(population, i) == population[i + 1]

\* Characters a text is made of.  Beside ASCII characters: a decimal digit of
\* another script (category Nd), a superscript digit (category No with
\* Numeric_Type=Digit) and a fraction (category No, Numeric_Type=Numeric).
AsciiDigits == {"0", "1", "2", "3", "4", "5", "6", "7", "8", "9"}
OtherDecimalDigits == {"ARABIC-INDIC DIGIT THREE"}
SuperscriptDigits == {"SUPERSCRIPT TWO"}
Chars == {"0", "7", "a", " ", "-", "VULGAR FRACTION ONE HALF"}
             \cup OtherDecimalDigits \cup SuperscriptDigits

\* str.isdigit(): true of every character whose Numeric_Type is Decimal or
\* Digit.
isdigit(c) == c \in AsciiDigits \cup OtherDecimalDigits \cup SuperscriptDigits

\* list[i] of Python: a negative index counts from the end.
PyIndexable(list, i) == -Len(list) <= i /\ i < Len(list)

PyIndex(list, i) == IF i >= 0 THEN list[i + 1] ELSE list[Len(list) + i + 1]

dias_semana ==
    << "segunda", "terca", "quarta", "quinta", "sexta", "sabado", "domingo" >>

Pending == [kind |-> "pending"]
Value(v) == [kind |-> "value", value |-> v]
Raised(e) == [kind |-> e]

Textos == UNION {[1..n -> Chars] : n \in 0..MaxTexto}

FuncoesOff ==
    /\ fn = "none" /\ arg = 0 /\ acc = <<>> /\ pos = 0 /\ ret = Pending

InitFuncoes ==
    /\ acc = <<>>
    /\ pos = 0
    /\ ret = Pending
    /\ \/ fn = "gera_senha" /\ arg \in 0..MaxTamanho
       \/ fn = "so_numeros" /\ arg \in Textos
       \/ fn = "dia_da_semana" /\ arg \in (-MaxDia)..MaxDia

\* gera_senha, line 15: one draw of random.choices
GeraSenhaDraw(i) ==
    /\ fn = "gera_senha" /\ ret = Pending
    /\ Len(acc) < arg
    /\ acc' = Append(acc, Choice(geral, i))
    /\ UNCHANGED <<fn, arg, pos, ret>>
    /\ UNCHANGED <<dirVars, expVars>>

\* gera_senha, line 15: "".join of the k draws
GeraSenhaReturn ==
    /\ fn = "gera_senha" /\ ret = Pending
    /\ Len(acc) >= arg
    /\ ret' = Value(acc)
    /\ UNCHANGED <<fn, arg, acc, pos>>
    /\ UNCHANGED <<dirVars, expVars>>

\* so_numeros, line 24: the generator looks at the next character
SoNumerosStep ==
    /\ fn = "so_numeros" /\ ret = Pending
    /\ pos < Len(arg)
    /\ pos' = pos + 1
    /\ acc' = IF isdigit(arg[pos + 1]) THEN Append(acc, arg[pos + 1]) ELSE acc
    /\ UNCHANGED <<fn, arg, ret>>
    /\ UNCHANGED <<dirVars, expVars>>

\* so_numeros, line 24: ''.join of what the generator yielded
SoNumerosReturn ==
    /\ fn = "so_numeros" /\ ret = Pending
    /\ pos = Len(arg)
    /\ ret' = Value(acc)
    /\ UNCHANGED <<fn, arg, acc, pos>>
    /\ UNCHANGED <<dirVars, expVars>>

\* dia_da_semana, lines 33-34
DiaDaSemana ==
    /\ fn = "dia_da_semana" /\ ret = Pending
    /\ ret' = IF PyIndexable(dias_semana, arg)
                THEN Value(PyIndex(dias_semana, arg))
                ELSE Raised("IndexError")
    /\ UNCHANGED <<fn, arg, acc, pos>>
    /\ UNCHANGED <<dirVars, expVars>>

NextFuncoes ==
    \/ \E i \in 0..(Len(geral) - 1) : GeraSenhaDraw(i)
    \/ GeraSenhaReturn
    \/ SoNumerosStep
    \/ SoNumerosReturn
    \/ DiaDaSemana

(***************************************************************************)
(* criar_diretorios.py                                                     *)
(***************************************************************************)
AnoInicial == 2025

tabelas == << "atendimentos_documentos" >>

anos == AnoInicial..(AnoInicial + nAnos - 1)

meses_11 == 1..11

meses == 1..12

dias == 1..31

\* the format specification :02
Fmt02(n) == IF n < 10 THEN "0" \o ToString(n) ELSE ToString(n)

\* A path is the sequence of its components: "./a/2025/01" is
\* <<".", "a", "2025", "01">>.
CaminhoTabela(t) == << ".", t >>
CaminhoAno(t, a) == << ".", t, ToString(a) >>
CaminhoMes(t, a, m) == << ".", t, ToString(a), Fmt02(m) >>
CaminhoDia(t, a, m, d) == << ".", t, ToString(a), Fmt02(m), Fmt02(d) >>

Cwd == << "." >>

Ancestors(p) == {SubSeq(p, 1, n) : n \in 1..Len(p)}

\* os.path.exists
exists(p) == p \in fs

\* os.mkdir: FileExistsError when the path exists, FileNotFoundError when its
\* parent does not.
mkdir_exist_ok(p) == SubSeq(p, 1, Len(p) - 1) \in fs

mkdir_ok(p) == p \notin fs /\ SubSeq(p, 1, Len(p) - 1) \in fs

\* What the script does with a path at lines 22-25, 28-31, 34-37 and 40-43;
\* `next` is where the script goes on when the statement succeeds.
PrintOrMkdir(p, next) ==
    /\ caminho' = p
    /\ IF debug
         THEN /\ printed' = Append(printed, p)
              /\ fs' = fs
              /\ dpc' = next
         ELSE /\ printed' = printed
              /\ IF mkdir_ok(p)
                   THEN fs' = fs \cup {p} /\ dpc' = next
                   ELSE fs' = fs /\ dpc' = "failed"

\* The directories that may exist before the script runs: a directory exists
\* only with all its ancestors.
PreExisting ==
    LET t == tabelas[1]
        cand == {CaminhoTabela(t)}
                  \cup {CaminhoAno(t, a) : a \in anos}
                  \cup {CaminhoMes(t, a, m) : a \in anos, m \in {1, 12}}
                  \cup {CaminhoDia(t, a, m, d) :
                            a \in anos, m \in {1, 12}, d \in {1, 31}}
    IN  {{Cwd}} \cup {Ancestors(p) : p \in cand}

DirOff ==
    /\ debug = TRUE /\ nAnos = 0 /\ fs0 = {} /\ fs = {} /\ printed = <<>>
    /\ dpc = "off" /\ ti = 0 /\ ano = 0 /\ mes = 0 /\ dia = 0 /\ caminho = <<>>

InitDir ==
    /\ debug \in BOOLEAN
    /\ nAnos \in 1..MaxAnos
    /\ fs0 \in PreExisting
    /\ fs = fs0
    /\ printed = <<>>
    /\ dpc = "tabela"
    /\ ti = 1 /\ ano = 0 /\ mes = 0 /\ dia = 0
    /\ caminho = <<>>

\* lines 19-25
StepTabela ==
    /\ dpc = "tabela"
    /\ IF exists(CaminhoTabela(tabelas[ti]))
         THEN /\ caminho' = CaminhoTabela(tabelas[ti])
              /\ dpc' = "ano"
              /\ UNCHANGED <<fs, printed>>
         ELSE PrintOrMkdir(CaminhoTabela(tabelas[ti]), "ano")
    /\ ano' = AnoInicial
    /\ UNCHANGED <<debug, nAnos, fs0, ti, mes, dia>>
    /\ UNCHANGED <<funcoesVars, expVars>>

\* lines 26-31
StepAno ==
    /\ dpc = "ano"
    /\ PrintOrMkdir(CaminhoAno(tabelas[ti], ano), "mes")
    /\ mes' = 1
    /\ UNCHANGED <<debug, nAnos, fs0, ti, ano, dia>>
    /\ UNCHANGED <<funcoesVars, expVars>>

\* lines 32-37
StepMes ==
    /\ dpc = "mes"
    /\ PrintOrMkdir(CaminhoMes(tabelas[ti], ano, mes), "dia")
    /\ dia' = 1
    /\ UNCHANGED <<debug, nAnos, fs0, ti, ano, mes>>
    /\ UNCHANGED <<funcoesVars, expVars>>

\* lines 38-43, and the loops' advance after the innermost body
StepDia ==
    /\ dpc = "dia"
    /\ LET next == IF dia + 1 \in dias THEN "dia"
                   ELSE IF mes + 1 \in meses THEN "mes"
                   ELSE IF ano + 1 \in anos THEN "ano"
                   ELSE IF ti + 1 \in DOMAIN tabelas THEN "tabela"
                   ELSE "done"
       IN  /\ PrintOrMkdir(CaminhoDia(tabelas[ti], ano, mes, dia), next)
           /\ dia' = IF next = "dia" THEN dia + 1 ELSE dia
           /\ mes' = IF next = "mes" THEN mes + 1 ELSE mes
           /\ ano' = IF next = "ano" THEN ano + 1 ELSE ano
           /\ ti' = IF next = "tabela" THEN ti + 1 ELSE ti
    /\ UNCHANGED <<debug, nAnos, fs0>>
    /\ UNCHANGED <<funcoesVars, expVars>>

NextDir ==
    \/ StepTabela
    \/ StepAno
    \/ StepMes
    \/ StepDia

(***************************************************************************)
(* db_excel_exporter.py                                                    *)
(***************************************************************************)
min_conn == 1

max_conn == 10

None == [kind |-> "None"]
NoExc == [err |-> "none", context |-> "none"]
NoPool == [state |-> "none", idle |-> 0, used |-> 0]
NoFail == [at |-> 0, err |-> "none"]
Path == [kind |-> "output_file"]
Absent == [kind |-> "absent"]
Empty == [kind |-> "empty"]
Returned(v) == [kind |-> "returned", value |-> v]
RaisedExc(e) == [kind |-> "raised", exc |-> e]

SheetNames == {"Pacientes", "Estudos"}
QueryTexts == {"SELECT 1", "SELECT 2"}
ParamVals == {[kind |-> "tuple", value |-> 18]}
ColNames == {"id", "name"}

\* the result-set descriptions a query may have (names may repeat)
Descriptions == UNION {[1..n -> ColNames] : n \in 1..MaxCols}

\* the mappings {nome_aba: query_sql}: items in insertion order, keys distinct
QueriesDicts ==
    LET items == [sheet : SheetNames, query : QueryTexts]
        seqs == UNION {[1..n -> items] : n \in 0..Cardinality(SheetNames)}
    IN  {q \in seqs : \A a, b \in 1..Len(q) : q[a].sheet = q[b].sheet => a = b}

\* the optional mappings {nome_aba: parametros}
ParamsDicts ==
    {None} \cup {[kind |-> "dict", map |-> f] :
                     f \in UNION {[S -> ParamVals] : S \in SUBSET SheetNames}}

DataFrame(columns, rows) == [kind |-> "df", columns |-> columns, rows |-> rows]

Tables ==
    {DataFrame(c, n) : c \in Descriptions \cup {<<>>}, n \in 0..MaxRows}

\* A raise while `exc` is being handled keeps it as the new error's context.
Raising(err) == [err |-> err, context |-> exc.err]

\* ---- the pool (psycopg2.pool.ThreadedConnectionPool)
NewPool == [state |-> "open", idle |-> min_conn, used |-> 0]

CanGetconn(p) == p.state = "open" /\ (p.idle > 0 \/ p.used < max_conn)

\* getconn cannot fail on an open pool that holds an idle connection
MayFailGetconn(p) == p.state # "open" \/ p.idle = 0

getconn(p) ==
    [p EXCEPT !.used = @ + 1, !.idle = IF @ > 0 THEN @ - 1 ELSE @]

\* lines 86-87: the connection goes back to the pool; the pool keeps it when
\* it holds fewer than min_conn idle ones and the connection is not broken
putconn_leak(p, broken) == p

putconn(p, broken) ==
    [p EXCEPT !.used = @ - 1,
              !.idle = IF @ < min_conn /\ ~broken THEN @ + 1 ELSE @]

closeall(p) == [state |-> "closed", idle |-> 0, used |-> 0]

\* ---- the call stack
pc == IF stack = <<>> THEN "idle" ELSE stack[Len(stack)].pc

Goto(l) == [stack EXCEPT ![Len(stack)].pc = l]

Call(l, f, entry) == Append(Goto(l), [fn |-> f, pc |-> entry])

\* The running function returns `value` (e = NoExc) or raises e: to its
\* caller, or to the client when it is the client's call.
Leave(e, value) ==
    /\ stack' = SubSeq(stack, 1, Len(stack) - 1)
    /\ IF Len(stack) = 1
         THEN /\ result' = IF e = NoExc THEN Returned(value) ELSE RaisedExc(e)
              /\ exc' = NoExc
         ELSE /\ result' = result
              /\ exc' = e

\* ---- execute_query, lines 118-126
\* the keys of a RealDictRow: the column names, a repeated name once
Keys(desc) ==
    LET first == {k \in 1..Len(desc) : \A j \in 1..(k - 1) : desc[j] # desc[k]}
        f[k \in 0..Len(desc)] ==
            IF k = 0 THEN <<>>
            ELSE IF k \in first THEN Append(f[k - 1], desc[k]) ELSE f[k - 1]
    IN  f[Len(desc)]

Columns(as_dict, desc, rows) ==
    IF as_dict
      THEN IF rows > 0 THEN Keys(desc) ELSE <<>>
      ELSE desc

\* ---- multiple_queries_to_excel, line 265
QueryParams_none(params, sheet_name) == None

QueryParams(params, sheet_name) ==
    IF params # None /\ DOMAIN params.map # {}
      THEN IF sheet_name \in DOMAIN params.map
             THEN params.map[sheet_name]
             ELSE None
      ELSE None

\* ---- xlsxwriter: a workbook closed without a worksheet gets an empty one
Document(sheets) ==
    [kind |-> "xlsx", sheets |-> IF sheets = <<>> THEN << "Sheet1" >> ELSE sheets]

\* ---- quick_export, lines 317-320: the finally clause runs whether
\* query_to_excel returned or raised e
FinallyRuns_on_success_only(e) == e = NoExc

FinallyRuns(e) == TRUE

\* The client starts a call.
Begin(call, frame, eq0, df0) ==
    /\ stack = <<>> /\ result = Pending
    /\ op' = call
    /\ stack' = << frame >>
    /\ eq' = eq0 /\ df' = df0
    /\ UNCHANGED <<exc, description, results, writer, disk, executed, idx,
                   result, qfail, closeCalls>>

InitExp ==
    /\ pool = NoPool /\ stack = <<>> /\ exc = NoExc /\ op = [name |-> "none"]
    /\ eq = None /\ description = None /\ results = 0 /\ df = None
    /\ writer = None /\ disk = Absent /\ executed = <<>> /\ idx = 0
    /\ result = Pending /\ qfail = NoFail /\ closeCalls = 0

\* ---------------------------------------------------------------- client
\* The client has the outcome of its call (the value, or the error) and goes
\* on; the exporter stays as the call left it.  Each call writes to an
\* output_file of its own.
ClientGoesOn ==
    /\ stack = <<>> /\ result # Pending
    /\ op' = [name |-> "none"]
    /\ eq' = None /\ df' = None
    /\ exc' = NoExc /\ description' = None /\ results' = 0
    /\ writer' = None /\ disk' = Absent /\ executed' = <<>>
    /\ idx' = 0 /\ result' = Pending /\ qfail' = NoFail /\ closeCalls' = 0
    /\ UNCHANGED <<pool, stack>>
    /\ UNCHANGED <<funcoesVars, dirVars>>

\* PostgreSQLExporter(...), lines 61-78
NewExporter ==
    /\ pool.state \in {"none", "closed"}
    /\ Begin([name |-> "__init__"], [fn |-> "__init__", pc |-> "init_pool"], None, None)
    /\ UNCHANGED pool
    /\ UNCHANGED <<funcoesVars, dirVars>>

InitPool ==
    /\ pc = "init_pool"
    /\ \E ok \in BOOLEAN :
        IF ok THEN pool' = NewPool /\ Leave(NoExc, None)
        ELSE pool' = pool /\ Leave(Raising("init"), None)
    /\ UNCHANGED <<op, eq, description, results, df, writer, disk, executed,
                   idx, qfail, closeCalls>>
    /\ UNCHANGED <<funcoesVars, dirVars>>

CallExecuteQuery(query, params, as_dict) ==
    /\ pool.state # "none"
    /\ Begin([name |-> "execute_query", query |-> query, params |-> params,
              as_dict |-> as_dict],
             [fn |-> "execute_query", pc |-> "eq_getconn"],
             [query |-> query, params |-> params, as_dict |-> as_dict], None)
    /\ UNCHANGED pool
    /\ UNCHANGED <<funcoesVars, dirVars>>

CallQueryToExcel(query, params) ==
    /\ pool.state # "none"
    /\ Begin([name |-> "query_to_excel", query |-> query, params |-> params,
              sheet_name |-> "Dados"],
             [fn |-> "query_to_excel", pc |-> "qe_call_eq"], None, None)
    /\ UNCHANGED pool
    /\ UNCHANGED <<funcoesVars, dirVars>>

CallDataframeToExcel(table) ==
    /\ pool.state # "none"
    /\ Begin([name |-> "dataframe_to_excel", sheet_name |-> "Dados"],
             [fn |-> "dataframe_to_excel", pc |-> "dte_open"], None, table)
    /\ UNCHANGED pool
    /\ UNCHANGED <<funcoesVars, dirVars>>

CallMultipleQueriesToExcel(queries, params) ==
    /\ pool.state # "none"
    /\ Begin([name |-> "multiple_queries_to_excel", queries |-> queries,
              params |-> params],
             [fn |-> "multiple_queries_to_excel", pc |-> "mq_open"], None, None)
    /\ UNCHANGED pool
    /\ UNCHANGED <<funcoesVars, dirVars>>

CallQuickExport(query) ==
    /\ pool.state \in {"none", "closed"}
    /\ Begin([name |-> "quick_export", query |-> query, params |-> None,
              sheet_name |-> "Dados"],
             [fn |-> "quick_export", pc |-> "qx_init"], None, None)
    /\ UNCHANGED pool
    /\ UNCHANGED <<funcoesVars, dirVars>>

\* close(), lines 288-292, called by the client: the pool object is truthy
\* whether open or closed, and closeall raises on a closed pool
CallClose ==
    /\ pool.state # "none"
    /\ Begin([name |-> "close"], [fn |-> "close", pc |-> "close_closeall"],
             None, None)
    /\ UNCHANGED pool
    /\ UNCHANGED <<funcoesVars, dirVars>>

CloseCloseall ==
    /\ pc = "close_closeall"
    /\ IF pool.state = "open"
         THEN pool' = closeall(pool) /\ closeCalls' = closeCalls + 1
              /\ Leave(NoExc, None)
         ELSE pool' = pool /\ closeCalls' = closeCalls
              /\ Leave(Raising("PoolError"), None)
    /\ UNCHANGED <<op, eq, description, results, df, writer, disk, executed,
                   idx, qfail>>
    /\ UNCHANGED <<funcoesVars, dirVars>>

\* -------------------------------------------------------- execute_query
\* line 107 -> line 83: getconn, before the try of get_connection
EqGetconn ==
    /\ pc = "eq_getconn"
    /\ \E ok \in BOOLEAN :
        /\ ok => CanGetconn(pool)
        /\ ~ok => MayFailGetconn(pool)
        /\ IF ok
             THEN pool' = getconn(pool) /\ exc' = exc
                  /\ stack' = Goto("eq_cursor")
             ELSE pool' = pool /\ exc' = Raising("getconn")
                  /\ stack' = Goto("eq_except")
    /\ UNCHANGED <<op, eq, description, results, df, writer, disk, executed,
                   idx, result, qfail, closeCalls>>
    /\ UNCHANGED <<funcoesVars, dirVars>>

\* line 110: conn.cursor(cursor_factory=...)
EqCursor ==
    /\ pc = "eq_cursor"
    /\ \E ok \in BOOLEAN :
        IF ok THEN exc' = exc /\ stack' = Goto("eq_execute")
        ELSE exc' = Raising("cursor") /\ stack' = Goto("eq_putconn")
    /\ UNCHANGED <<pool, op, eq, description, results, df, writer, disk,
                   executed, idx, result, qfail, closeCalls>>
    /\ UNCHANGED <<funcoesVars, dirVars>>

\* lines 111-112: cursor.execute(query, params)
EqExecute ==
    /\ pc = "eq_execute"
    /\ executed' = Append(executed, [query |-> eq.query, params |-> eq.params])
    /\ \E ok \in BOOLEAN :
        IF ok
          THEN /\ \E d \in Descriptions : description' = d
               /\ exc' = exc /\ stack' = Goto("eq_fetch")
          ELSE /\ description' = description
               /\ exc' = Raising("execute") /\ stack' = Goto("eq_cursor_exit")
    /\ UNCHANGED <<pool, op, eq, results, df, writer, disk, idx, result,
                   qfail, closeCalls>>
    /\ UNCHANGED <<funcoesVars, dirVars>>

\* line 115: cursor.fetchall()
EqFetch ==
    /\ pc = "eq_fetch"
    /\ \E ok \in BOOLEAN :
        IF ok
          THEN /\ \E n \in 0..MaxRows : results' = n
               /\ exc' = exc /\ stack' = Goto("eq_frame")
          ELSE /\ results' = results
               /\ exc' = Raising("fetch") /\ stack' = Goto("eq_cursor_exit")
    /\ UNCHANGED <<pool, op, eq, description, df, writer, disk, executed,
                   idx, result, qfail, closeCalls>>
    /\ UNCHANGED <<funcoesVars, dirVars>>

\* lines 118-127: the column names and the DataFrame
EqFrame ==
    /\ pc = "eq_frame"
    /\ \E ok \in BOOLEAN :
        IF ok
          THEN /\ df' = DataFrame(Columns(eq.as_dict, description, results),
                                  results)
               /\ exc' = exc
          ELSE /\ df' = df
               /\ exc' = Raising("DataFrame")
    /\ stack' = Goto("eq_cursor_exit")
    /\ UNCHANGED <<pool, op, eq, description, results, writer, disk, executed,
                   idx, result, qfail, closeCalls>>
    /\ UNCHANGED <<funcoesVars, dirVars>>

\* line 110: the cursor's with block is left, the cursor is closed
EqCursorExit ==
    /\ pc = "eq_cursor_exit"
    /\ stack' = Goto("eq_putconn")
    /\ UNCHANGED <<pool, exc, op, eq, description, results, df, writer, disk,
                   executed, idx, result, qfail, closeCalls>>
    /\ UNCHANGED <<funcoesVars, dirVars>>

\* lines 86-87: the finally of get_connection; then line 129 returns df, or
\* the error goes to the except of line 131
EqPutconn ==
    /\ pc = "eq_putconn"
    /\ \E broken \in BOOLEAN :
        /\ broken => exc # NoExc
        /\ pool' = putconn(pool, broken)
    /\ IF exc = NoExc
         THEN Leave(NoExc, df)
         ELSE /\ stack' = Goto("eq_except")
              /\ UNCHANGED <<exc, result>>
    /\ UNCHANGED <<op, eq, description, results, df, writer, disk, executed,
                   idx, qfail, closeCalls>>
    /\ UNCHANGED <<funcoesVars, dirVars>>

\* lines 131-133: log and re-raise
EqExcept ==
    /\ pc = "eq_except"
    /\ Leave(exc, None)
    /\ qfail' = IF op.name = "multiple_queries_to_excel"
                  THEN [at |-> idx, err |-> exc.err]
                  ELSE qfail
    /\ UNCHANGED <<pool, op, eq, description, results, df, writer, disk,
                   executed, idx, closeCalls>>
    /\ UNCHANGED <<funcoesVars, dirVars>>

\* ------------------------------------------------------- query_to_excel
\* line 162
QeCallExecuteQuery ==
    /\ pc = "qe_call_eq"
    /\ eq' = [query |-> op.query, params |-> op.params, as_dict |-> TRUE]
    /\ stack' = Call("qe_after_eq", "execute_query", "eq_getconn")
    /\ UNCHANGED <<pool, exc, op, description, results, df, writer, disk,
                   executed, idx, result, qfail, closeCalls>>
    /\ UNCHANGED <<funcoesVars, dirVars>>

\* line 165, or lines 174-176 when execute_query raised
QeCallDataframeToExcel ==
    /\ pc = "qe_after_eq"
    /\ IF exc = NoExc
         THEN /\ stack' = Call("qe_after_dte", "dataframe_to_excel", "dte_open")
              /\ UNCHANGED <<exc, result>>
         ELSE Leave(exc, None)
    /\ UNCHANGED <<pool, op, eq, description, results, df, writer, disk,
                   executed, idx, qfail, closeCalls>>
    /\ UNCHANGED <<funcoesVars, dirVars>>

\* line 165 returns what dataframe_to_excel returned, or lines 174-176
QeReturn ==
    /\ pc = "qe_after_dte"
    /\ Leave(exc, Path)
    /\ UNCHANGED <<pool, op, eq, description, results, df, writer, disk,
                   executed, idx, qfail, closeCalls>>
    /\ UNCHANGED <<funcoesVars, dirVars>>

\* --------------------------------------------------- dataframe_to_excel
\* line 202: pd.ExcelWriter(output_file) opens the file for writing
DteOpen ==
    /\ pc = "dte_open"
    /\ \E ok \in BOOLEAN :
        IF ok
          THEN /\ writer' = [kind |-> "writer", sheets |-> <<>>]
               /\ disk' = Empty
               /\ exc' = exc /\ stack' = Goto("dte_write")
          ELSE /\ UNCHANGED <<writer, disk>>
               /\ exc' = Raising("open") /\ stack' = Goto("dte_except")
    /\ UNCHANGED <<pool, op, eq, description, results, df, executed, idx,
                   result, qfail, closeCalls>>
    /\ UNCHANGED <<funcoesVars, dirVars>>

\* lines 203-236: the sheet and its formatting
DteWrite ==
    /\ pc = "dte_write"
    /\ \E ok \in BOOLEAN :
        IF ok
          THEN /\ writer' = [writer EXCEPT !.sheets = Append(@, op.sheet_name)]
               /\ exc' = exc
          ELSE /\ writer' = writer
               /\ exc' = Raising("write")
    /\ stack' = Goto("dte_exit")
    /\ UNCHANGED <<pool, op, eq, description, results, df, disk, executed,
                   idx, result, qfail, closeCalls>>
    /\ UNCHANGED <<funcoesVars, dirVars>>

\* line 202: the writer's with block is left, by return or by an error:
\* ExcelWriter.__exit__ closes the writer, which saves the workbook; then
\* lines 238-239, or the except of line 241
DteExit ==
    /\ pc = "dte_exit"
    /\ writer' = None
    /\ \E ok \in BOOLEAN :
        LET e == IF ok THEN exc ELSE Raising("save")
        IN  /\ disk' = IF ok THEN Document(writer.sheets) ELSE disk
            /\ IF e = NoExc
                 THEN Leave(NoExc, Path)
                 ELSE /\ stack' = Goto("dte_except")
                      /\ exc' = e
                      /\ result' = result
    /\ UNCHANGED <<pool, op, eq, description, results, df, executed, idx,
                   qfail, closeCalls>>
    /\ UNCHANGED <<funcoesVars, dirVars>>

\* lines 241-243
DteExcept ==
    /\ pc = "dte_except"
    /\ Leave(exc, None)
    /\ UNCHANGED <<pool, op, eq, description, results, df, writer, disk,
                   executed, idx, qfail, closeCalls>>
    /\ UNCHANGED <<funcoesVars, dirVars>>

\* -------------------------------------------- multiple_queries_to_excel
\* line 263
MqOpen ==
    /\ pc = "mq_open"
    /\ \E ok \in BOOLEAN :
        IF ok
          THEN /\ writer' = [kind |-> "writer", sheets |-> <<>>]
               /\ disk' = Empty
               /\ idx' = 1
               /\ exc' = exc /\ stack' = Goto("mq_loop")
          ELSE /\ UNCHANGED <<writer, disk, idx>>
               /\ exc' = Raising("open") /\ stack' = Goto("mq_except")
    /\ UNCHANGED <<pool, op, eq, description, results, df, executed, result,
                   qfail, closeCalls>>
    /\ UNCHANGED <<funcoesVars, dirVars>>

\* lines 264-266: the next item of queries.items(), its parameters, and the
\* call of execute_query; or the end of the loop
MqLoop ==
    /\ pc = "mq_loop"
    /\ IF idx <= Len(op.queries)
         THEN /\ eq' = [query |-> op.queries[idx].query,
                        params |-> QueryParams(op.params, op.queries[idx].sheet),
                        as_dict |-> TRUE]
              /\ stack' = Call("mq_write", "execute_query", "eq_getconn")
         ELSE /\ eq' = eq
              /\ stack' = Goto("mq_exit")
    /\ UNCHANGED <<pool, exc, op, description, results, df, writer, disk,
                   executed, idx, result, qfail, closeCalls>>
    /\ UNCHANGED <<funcoesVars, dirVars>>

\* lines 268-279: the sheet and its header (df is not read again before line
\* 266 rebinds it); an error, of execute_query or of these lines, leaves the
\* with block
MqWrite ==
    /\ pc = "mq_write"
    /\ IF exc # NoExc
         THEN /\ stack' = Goto("mq_exit")
              /\ UNCHANGED <<exc, writer, idx, df>>
         ELSE \E ok \in BOOLEAN :
                IF ok
                  THEN /\ writer' = [writer EXCEPT
                                       !.sheets = Append(@, op.queries[idx].sheet)]
                       /\ idx' = idx + 1
                       /\ df' = None
                       /\ exc' = exc /\ stack' = Goto("mq_loop")
                  ELSE /\ UNCHANGED <<writer, idx, df>>
                       /\ exc' = Raising("write") /\ stack' = Goto("mq_exit")
    /\ UNCHANGED <<pool, op, eq, description, results, disk, executed,
                   result, qfail, closeCalls>>
    /\ UNCHANGED <<funcoesVars, dirVars>>

\* line 263: the writer's with block is left, by the end of the loop or by
\* an error: ExcelWriter.__exit__ closes the writer, which saves the
\* workbook with the sheets written so far; then lines 281-282, or the
\* except of line 284
MqExit ==
    /\ pc = "mq_exit"
    /\ writer' = None
    /\ \E ok \in BOOLEAN :
        LET e == IF ok THEN exc ELSE Raising("save")
        IN  /\ disk' = IF ok THEN Document(writer.sheets) ELSE disk
            /\ IF e = NoExc
                 THEN Leave(NoExc, Path)
                 ELSE /\ stack' = Goto("mq_except")
                      /\ exc' = e
                      /\ result' = result
    /\ UNCHANGED <<pool, op, eq, description, results, df, executed, idx,
                   qfail, closeCalls>>
    /\ UNCHANGED <<funcoesVars, dirVars>>

\* lines 284-286
MqExcept ==
    /\ pc = "mq_except"
    /\ Leave(exc, None)
    /\ UNCHANGED <<pool, op, eq, description, results, df, writer, disk,
                   executed, idx, qfail, closeCalls>>
    /\ UNCHANGED <<funcoesVars, dirVars>>

\* --------------------------------------------------------- quick_export
\* line 316: the exporter is constructed, outside the try
QxInit ==
    /\ pc = "qx_init"
    /\ \E ok \in BOOLEAN :
        IF ok
          THEN /\ pool' = NewPool
               /\ stack' = Goto("qx_call")
               /\ UNCHANGED <<exc, result>>
          ELSE /\ pool' = pool
               /\ Leave(Raising("init"), None)
    /\ UNCHANGED <<op, eq, description, results, df, writer, disk, executed,
                   idx, qfail, closeCalls>>
    /\ UNCHANGED <<funcoesVars, dirVars>>

\* line 318
QxCall ==
    /\ pc = "qx_call"
    /\ stack' = Call("qx_finally", "query_to_excel", "qe_call_eq")
    /\ UNCHANGED <<pool, exc, op, eq, description, results, df, writer, disk,
                   executed, idx, result, qfail, closeCalls>>
    /\ UNCHANGED <<funcoesVars, dirVars>>

\* line 320 -> lines 290-292: close(), then the return or the re-raise
QxFinally ==
    /\ pc = "qx_finally"
    /\ IF FinallyRuns(exc)
         THEN pool' = closeall(pool) /\ closeCalls' = closeCalls + 1
         ELSE pool' = pool /\ closeCalls' = closeCalls
    /\ Leave(exc, Path)
    /\ UNCHANGED <<op, eq, description, results, df, writer, disk, executed,
                   idx, qfail>>
    /\ UNCHANGED <<funcoesVars, dirVars>>

Next ==
    \/ ClientGoesOn
    \/ NewExporter
    \/ InitPool
    \/ \E q \in QueryTexts, p \in ParamVals \cup {None}, d \in BOOLEAN :
          CallExecuteQuery(q, p, d)
    \/ \E q \in QueryTexts, p \in ParamVals \cup {None} : CallQueryToExcel(q, p)
    \/ \E t \in Tables : CallDataframeToExcel(t)
    \/ \E qs \in QueriesDicts, ps \in ParamsDicts :
          CallMultipleQueriesToExcel(qs, ps)
    \/ \E q \in QueryTexts : CallQuickExport(q)
    \/ CallClose
    \/ CloseCloseall
    \/ EqGetconn
    \/ EqCursor
    \/ EqExecute
    \/ EqFetch
    \/ EqFrame
    \/ EqCursorExit
    \/ EqPutconn
    \/ EqExcept
    \/ QeCallExecuteQuery
    \/ QeCallDataframeToExcel
    \/ QeReturn
    \/ DteOpen
    \/ DteWrite
    \/ DteExit
    \/ DteExcept
    \/ MqOpen
    \/ MqLoop
    \/ MqWrite
    \/ MqExit
    \/ MqExcept
    \/ QxInit
    \/ QxCall
    \/ QxFinally

(***************************************************************************)
(* Specifications                                                          *)
(***************************************************************************)
FuncoesInit == InitFuncoes /\ DirOff /\ InitExp

SpecFuncoes == FuncoesInit /\ [][NextFuncoes]_vars

Init == InitExp /\ FuncoesOff /\ DirOff

Spec == Init /\ [][Next]_vars

DirInit == InitDir /\ FuncoesOff /\ InitExp

SpecDir == DirInit /\ [][NextDir]_vars


(***************************************************************************)
(* Claims about funcoes.py, under SpecFuncoes                              *)
(***************************************************************************)
Alphabet68 ==
    { "a","b","c","d","e","f","g","h","i","j","k","l","m",
      "n","o","p","q","r","s","t","u","v","w","x","y","z",
      "A","B","C","D","E","F","G","H","I","J","K","L","M",
      "N","O","P","Q","R","S","T","U","V","W","X","Y","Z",
      "!","@","#","$","%","&","-",
      "0","1","2","3","4","5","6","8","9" }

\* a draw that yields the character c
DrawsChar(c) == \E i \in 0..(Len(geral) - 1) : GeraSenhaDraw(i) /\ acc' = Append(acc, c)

\* C9: gera_senha(tamanho), tamanho >= 0, returns exactly tamanho characters,
\* each one of the 68 characters (52 letters, 7 symbols, 9 digits without
\* '7'); '7' never occurs; every character of the alphabet can be drawn at
\* every position.
C9_GeraSenha ==
    fn = "gera_senha" =>
        /\ Cardinality(Alphabet68) = 68
        /\ Len(acc) <= arg
        /\ \A k \in 1..Len(acc) : acc[k] \in Alphabet68 /\ acc[k] # "7"
        /\ ret.kind \in {"pending", "value"}
        /\ ret.kind = "value" => ret.value = acc /\ Len(ret.value) = arg
        /\ (ret = Pending /\ Len(acc) < arg) =>
               \A c \in Alphabet68 : ENABLED DrawsChar(c)
        /\ (ret = Pending /\ Len(acc) >= arg) => ENABLED GeraSenhaReturn

C9_Witness ==
    /\ fn = "gera_senha" /\ arg >= 2
    /\ ret.kind = "value" /\ Len(ret.value) = arg
    /\ ret.value[1] = "9" /\ ret.value[2] = "-"

\* C8 (as claimed): so_numeros(texto) is exactly the subsequence of the
\* characters '0'..'9' of texto; every other character is removed.
C8_SoNumerosOnlyDecimal ==
    (fn = "so_numeros" /\ ret.kind = "value") =>
        ret.value = SelectSeq(arg, LAMBDA c : c \in AsciiDigits)

\* C5 (as claimed): dia_da_semana(dia) is the name at position dia for dia in
\* 0..6 and fails with an index error for every other integer.
C5_DiaDaSemana ==
    (fn = "dia_da_semana" /\ ret # Pending) =>
        IF arg \in 0..6
          THEN ret = Value(<< "segunda", "terca", "quarta", "quinta",
                              "sexta", "sabado", "domingo" >>[arg + 1])
          ELSE ret = Raised("IndexError")

(***************************************************************************)
(* Claims about criar_diretorios.py, under SpecDir                         *)
(***************************************************************************)
\* The grid of one table in loop order: per year 1 year path, then per month
\* 1 month path followed by its 31 day paths (385 paths a year).
GridSeq ==
    LET t == "atendimentos_documentos"
        at(k) ==
            LET a == 2025 + ((k - 1) \div 385)
                r == (k - 1) % 385
                m == ((r - 1) \div 32) + 1
                q == (r - 1) % 32
            IN  IF r = 0 THEN CaminhoAno(t, a)
                ELSE IF q = 0 THEN CaminhoMes(t, a, m)
                ELSE CaminhoDia(t, a, m, q)
    IN  [k \in 1..(385 * nAnos) |-> at(k)]

TabelaExistedAtStart == CaminhoTabela("atendimentos_documentos") \in fs0

NoDuplicates(s) == \A i, j \in 1..Len(s) : s[i] = s[j] => i = j

\* C6 (as claimed): a dry run reports 1 + 385*Y paths, each path of the grid
\* once, whatever directories exist at the start.
C6_DryRunCountAnyFs ==
    (debug /\ dpc = "done") =>
        /\ Len(printed) = 1 + 385 * nAnos
        /\ NoDuplicates(printed)
        /\ Range(printed) =
               {CaminhoTabela("atendimentos_documentos")} \cup Range(GridSeq)

\* C6 (amended): a dry run reports the table path only when the table
\* directory does not exist at the start, followed by the 385*Y grid paths in
\* loop order, each once: 1 + 385*Y paths then, 385*Y otherwise.
C6_DryRunCount ==
    (debug /\ dpc = "done") =>
        /\ printed = (IF TabelaExistedAtStart THEN <<>>
                      ELSE << CaminhoTabela("atendimentos_documentos") >>)
                     \o GridSeq
        /\ Len(printed) = (IF TabelaExistedAtStart THEN 0 ELSE 1) + 385 * nAnos
        /\ NoDuplicates(printed)

C6_Witness ==
    /\ debug /\ dpc = "done" /\ nAnos = 1
    /\ TabelaExistedAtStart
    /\ Len(printed) = 385

\* C7: in apply mode, when the table directory and some grid directory exist
\* at the start, the run fails at the first grid directory (in loop order)
\* that exists, having created exactly the grid directories before it and
\* none after it; it never runs to the end.
C7_ApplyFailsAtFirstExisting ==
    LET E == {k \in 1..Len(GridSeq) : GridSeq[k] \in fs0}
    IN  (~debug /\ dpc # "off" /\ TabelaExistedAtStart /\ E # {}) =>
            LET f == CHOOSE k \in E : \A j \in E : k <= j
            IN  /\ dpc # "done"
                /\ fs \ fs0 \subseteq {GridSeq[k] : k \in 1..(f - 1)}
                /\ dpc = "failed" =>
                       /\ caminho = GridSeq[f]
                       /\ fs \ fs0 = {GridSeq[k] : k \in 1..(f - 1)}
                /\ dpc # "failed" => ENABLED NextDir

C7_Witness ==
    /\ ~debug /\ dpc = "failed"
    /\ CaminhoMes("atendimentos_documentos", 2026, 12) \in fs0
    /\ CaminhoAno("atendimentos_documentos", 2025) \notin fs0
    /\ caminho = CaminhoAno("atendimentos_documentos", 2026)
    /\ CaminhoDia("atendimentos_documentos", 2025, 12, 31) \in fs

(***************************************************************************)
(* Claims about db_excel_exporter.py, under Spec                           *)
(***************************************************************************)
InExecuteQuery == \E k \in 1..Len(stack) : stack[k].fn = "execute_query"

CallEnded == stack = <<>> /\ result # Pending

\* C1: whatever step of a call fails, the connection checked out during the
\* call is back in the pool when the call returns or raises: no connection
\* is checked out outside execute_query, and never more than one inside it.
C1_ConnectionReleased ==
    /\ pool.used <= 1
    /\ ~InExecuteQuery => pool.used = 0
    /\ CallEnded => pool.used = 0

C1_Witness ==
    /\ CallEnded /\ op.name = "query_to_excel"
    /\ result.kind = "raised" /\ result.exc.err = "save"
    /\ Len(executed) = 1
    /\ pool.used = 0

\* the errors with which execute_query ends
QueryErrors == {"getconn", "cursor", "execute", "fetch", "DataFrame"}

C3_NoPartialDocument ==
    (CallEnded /\ op.name = "multiple_queries_to_excel" /\ qfail.at >= 2) =>
        disk.kind # "xlsx"

\* C4 (as claimed): the table execute_query returns has exactly the column
\* names of the result-set description, in its order, with as_dict True or
\* False and for any number of rows.
C4_ColumnsAreDescription ==
    (CallEnded /\ op.name = "execute_query" /\ result.kind = "returned") =>
        result.value.columns = description

\* C10: quick_export calls closeall exactly once when the exporter was
\* constructed, whether query_to_excel returns or raises, and then no
\* connection of the pool is open; when the construction fails close is not
\* called and that error is raised.
C10_QuickExportClosesPool ==
    op.name = "quick_export" =>
        /\ closeCalls <= 1
        /\ (stack # <<>> /\ pc # "qx_init") =>
               closeCalls = 0 /\ pool.state = "open"
        /\ CallEnded =>
               IF result = RaisedExc([err |-> "init", context |-> "none"])
                 THEN closeCalls = 0
                 ELSE /\ closeCalls = 1
                      /\ pool = [state |-> "closed", idle |-> 0, used |-> 0]
                      /\ result.kind = "returned" => result.value = Path

C10_Witness ==
    /\ CallEnded /\ op.name = "quick_export"
    /\ result = RaisedExc([err |-> "write", context |-> "none"])
    /\ closeCalls = 1 /\ pool.state = "closed"

=============================================================================
